---- MODULE Spec2Model ----
(***************************************************************************)
(* MathEquationSolver (src/MathEquationSolver.py): the Solve button's      *)
(* handler solve_equation, its helpers format_step_solution, plot_graph    *)
(* and solve_system, and the widgets they read and write.                  *)
(*                                                                         *)
(* A text is a sequence of pieces.  The characters the code inspects       *)
(* (" ", ",", "=", "(", ")") are always pieces of their own, and no other  *)
(* piece contains one of them, so str.strip, str.split and the             *)
(* '=' in eq test are modelled character for character.                    *)
(***************************************************************************)
EXTENDS Integers, Sequences, FiniteSets, TLC

VARIABLES
    eq_type,          \* equation_type_combo.currentText()
    equation_input,   \* equation_input.text()
    solution_output,  \* solution_output's text
    ax,               \* what the axes hold
    canvas,           \* what canvas.draw() last rendered
    calls,            \* the calls made by the last run of solve_equation, in order
    request,          \* the (type, text) the last run of solve_equation read
    plotted,          \* the expression of the last request whose plot was drawn
    engine            \* the algebra engine's answers this repository does not fix

vars == <<eq_type, equation_input, solution_output, ax, canvas, calls, request,
          plotted, engine>>

----------------------------------------------------------------------------
(* Strings *)

RECURSIVE Str(_)
\* The Python string a text stands for.
Str(s) == IF s = <<>> THEN "" ELSE Head(s) \o Str(Tail(s))

RECURSIVE lstrip(_)
lstrip(s) == IF s # <<>> /\ Head(s) = " " THEN lstrip(Tail(s)) ELSE s

RECURSIVE rstrip(_)
rstrip(s) ==
    IF s # <<>> /\ s[Len(s)] = " " THEN rstrip(SubSeq(s, 1, Len(s) - 1)) ELSE s

\* str.strip()
strip(s) == rstrip(lstrip(s))

\* sep in s
Contains(s, sep) == \E i \in 1..Len(s) : s[i] = sep

RECURSIVE SplitFrom(_, _, _)
SplitFrom(s, sep, cur) ==
    IF s = <<>> THEN <<cur>>
    ELSE IF Head(s) = sep THEN <<cur>> \o SplitFrom(Tail(s), sep, <<>>)
    ELSE SplitFrom(Tail(s), sep, Append(cur, Head(s)))

\* str.split(sep)
split(s, sep) == SplitFrom(s, sep, <<>>)

RECURSIVE Join(_, _)
\* sep.join(parts)
Join(parts, sep) ==
    IF parts = <<>> THEN ""
    ELSE IF Len(parts) = 1 THEN parts[1]
    ELSE parts[1] \o sep \o Join(Tail(parts), sep)

RECURSIVE NoSpaces(_)
NoSpaces(s) ==
    IF s = <<>> THEN <<>>
    ELSE IF Head(s) = " " THEN NoSpaces(Tail(s))
    ELSE <<Head(s)>> \o NoSpaces(Tail(s))

RECURSIVE Depth(_, _)
\* The parenthesis depth after text s, starting from depth d; -1 once a ")"
\* closes nothing.
Depth(s, d) ==
    IF d < 0 \/ s = <<>> THEN d
    ELSE IF Head(s) = "(" THEN Depth(Tail(s), d + 1)
    ELSE IF Head(s) = ")" THEN Depth(Tail(s), d - 1)
    ELSE Depth(Tail(s), d)

----------------------------------------------------------------------------
(* The result of a call: a returned value (a sequence) or a raised exception *)

Return(v) == [raised |-> FALSE, kind |-> "", msg |-> "", value |-> v]

Raise(k, m) == [raised |-> TRUE, kind |-> k, msg |-> m, value |-> <<>>]

----------------------------------------------------------------------------
(* The texts a user enters *)

\* The most blanks a text is padded with.
MaxPad == 2

\* k blanks
Blanks(k) == [i \in 1..k |-> " "]

\* ""
TEmpty == <<>>
\* "x**2 - 4"
TQuadratic == <<"x**2", " ", "-", " ", "4">>
\* "2*x"
TLinear == <<"2*x">>
\* "x + y"
TTwoVars == <<"x", " ", "+", " ", "y">>
\* "(x"
TUnbalanced == <<"(", "x">>
\* "Sum(1/n, (n, 1, x))"
TSum == <<"Sum", "(", "1/n", ",", " ", "(", "n", ",", " ", "1", ",", " ", "x", ")", ")">>
\* "x + y = 5, x - y = 1"
TSystemEq == <<"x", " ", "+", " ", "y", " ", "=", " ", "5", ",", " ",
               "x", " ", "-", " ", "y", " ", "=", " ", "1">>
\* "x + y = 1, x + y = 2"
TNoSolutionEq == <<"x", " ", "+", " ", "y", " ", "=", " ", "1", ",", " ",
                   "x", " ", "+", " ", "y", " ", "=", " ", "2">>
\* "x + y - 5, x - y - 1"
TSystem == <<"x", " ", "+", " ", "y", " ", "-", " ", "5", ",", " ",
             "x", " ", "-", " ", "y", " ", "-", " ", "1">>
\* "x + y - 1, x + y - 2"
TNoSolution == <<"x", " ", "+", " ", "y", " ", "-", " ", "1", ",", " ",
                 "x", " ", "+", " ", "y", " ", "-", " ", "2">>

\* The texts above, and the empty text and one expression with blanks
\* around them.
Unpadded == {TEmpty, TQuadratic, TLinear, TTwoVars, TUnbalanced, TSum,
             TSystemEq, TNoSolutionEq, TSystem, TNoSolution}

Texts == Unpadded \cup {Blanks(k) \o s \o Blanks(k) :
                           s \in {TEmpty, TQuadratic}, k \in 1..MaxPad}

\* addItems([...]) of the type dropdown
EqTypes == {"Algebraic Equation", "Differentiation", "Integration",
            "System of Equations"}

SingleTypes == {"Algebraic Equation", "Differentiation", "Integration"}

----------------------------------------------------------------------------
(* The algebra engine (sympy) and numpy, as the handler uses them.  An     *)
(* expression is named by its source text without blanks.  The engine is   *)
(* deterministic; the two answers this development leaves open are fixed   *)
(* once, in the variable engine.                                           *)

Engines == [tupleCalculus : {"raises", "returns"}, sumSolve : {"raises", "returns"}]

\* The expressions that are Python tuples (a comma outside parentheses).
Tuples == {"x+y-5,x-y-1", "x+y-1,x+y-2"}

\* sp.sympify(text): a bare "=", an unbalanced parenthesis or an empty text
\* is a SyntaxError, which sympify raises as SympifyError.
sympify(s) ==
    IF strip(s) = <<>> \/ Contains(s, "=") \/ Depth(s, 0) # 0
    THEN Raise("SympifyError",
               "Sympify of expression 'could not parse '" \o Str(s) \o "'' failed")
    ELSE Return(<<Str(NoSpaces(s))>>)

\* sp.solve(expr, x)
solve(e, expr) ==
    CASE expr = "x**2-4" -> Return(<<"-2", "2">>)
      [] expr = "2*x" -> Return(<<"0">>)
      [] expr = "x+y" -> Return(<<"-y">>)
      [] expr \in Tuples -> Return(<<>>)
      [] expr = "Sum(1/n,(n,1,x))" ->
            IF e.sumSolve = "returns" THEN Return(<<>>)
            ELSE Raise("NotImplementedError", "No algorithms are implemented to solve equation")
      [] OTHER -> Raise("NotImplementedError", "solve: " \o expr)

\* sp.diff(expr, x)
diff(e, expr) ==
    CASE expr = "x**2-4" -> Return(<<"2*x">>)
      [] expr = "2*x" -> Return(<<"2">>)
      [] expr = "x+y" -> Return(<<"1">>)
      [] expr = "Sum(1/n,(n,1,x))" -> Return(<<"Derivative(Sum(1/n, (n, 1, x)), x)">>)
      [] expr \in Tuples ->
            IF e.tupleCalculus = "returns" THEN Return(<<"Derivative((" \o expr \o "), x)">>)
            ELSE Raise("AttributeError", "'Tuple' object has no attribute '_eval_derivative_n_times'")
      [] OTHER -> Raise("ValueError", "diff: " \o expr)

\* sp.integrate(expr, x)
integrate(e, expr) ==
    CASE expr = "x**2-4" -> Return(<<"x**3/3 - 4*x">>)
      [] expr = "2*x" -> Return(<<"x**2">>)
      [] expr = "x+y" -> Return(<<"x**2/2 + x*y">>)
      [] expr = "Sum(1/n,(n,1,x))" -> Return(<<"Integral(Sum(1/n, (n, 1, x)), x)">>)
      [] expr \in Tuples ->
            IF e.tupleCalculus = "returns" THEN Return(<<"Integral((" \o expr \o "), x)">>)
            ELSE Raise("AttributeError", "'Tuple' object has no attribute 'as_poly'")
      [] OTHER -> Raise("ValueError", "integrate: " \o expr)

\* sp.lambdify(x_sym, expr, "numpy"), the call of the function on x_vals and
\* ax.plot(x_vals, y_vals, ...): the first exception they raise, if any.
evaluate(expr) ==
    CASE expr \in {"x**2-4", "2*x"} -> Return(<<expr>>)
      [] expr = "Sum(1/n,(n,1,x))" ->
            Raise("TypeError", "only integer scalar arrays can be converted to a scalar index")
      [] OTHER -> Raise("NameError", "name 'y' is not defined")

\* expr.free_symbols
free_symbols(expr) ==
    CASE expr \in {"x**2-4", "2*x"} -> {"x"}
      [] OTHER -> {"x", "y"}

\* The order of symbol names.
NameOrder == <<"x", "y">>

RECURSIVE SortedBy(_, _)
\* sorted(variables, key=lambda v: v.name)
SortedBy(order, S) ==
    IF order = <<>> THEN <<>>
    ELSE (IF Head(order) \in S THEN <<Head(order)>> ELSE <<>>)
         \o SortedBy(Tail(order), S)

\* sp.linsolve(equations, *variables): the solution set, as the sequence
\* list(solutions) gives.
linsolve(equations, variables) ==
    CASE equations \in {<<"x+y-5", "x-y-1">>, <<"(x+y)-(5)", "(x-y)-(1)">>} ->
            Return(<< <<"3", "2">> >>)
      [] equations \in {<<"x+y-1", "x+y-2">>, <<"(x+y)-(1)", "(x+y)-(2)">>} ->
            Return(<<>>)
      [] equations = <<"2*x">> -> Return(<< <<"0">> >>)
      [] equations = <<"x+y">> -> Return(<< <<"-y", "y">> >>)
      [] OTHER -> Raise("NonlinearError", "nonlinear term: x**2")

\* sol.evalf(), as str() prints it
evalf(sol) ==
    CASE sol = "3" -> "3.00000000000000"
      [] sol = "2" -> "2.00000000000000"
      [] OTHER -> sol

----------------------------------------------------------------------------
(* The widgets a request reads and writes: gui = [out, ax, canvas, calls] *)

\* The axes after ax.clear(), and as plt.subplots() creates them.
ClearedAxes == [lines |-> <<>>, decorated |-> FALSE]

\* A call, as the log of a request records it.
Made(name, arg) == [name |-> name, arg |-> arg]

\* One more call in the log of the request.
Call(g, name, arg) == [g EXCEPT !.calls = Append(@, Made(name, arg))]

\* The text added to the output instead of replacing it.
setTextAppending(g, text) ==
    [Call(g, "setText", text) EXCEPT !.out = @ \o text]

\* self.solution_output.setText(text)
setText(g, text) == [Call(g, "setText", text) EXCEPT !.out = text]

\* The integral sign the Integration branch puts before f(x) dx (the
\* module is ASCII, so the sign is spelled out).
IntegralSign == "{integral sign}"

PleaseEnter == "Please enter an equation."

PlotError == "Error: Unable to plot the function. Please enter a valid equation."

RECURSIVE FormatFrom(_, _)
\* The loop of format_step_solution, from index i (0-based).
FormatFrom(solutions, i) ==
    IF i >= Len(solutions) THEN ""
    ELSE "x" \o ToString(i + 1) \o " = " \o solutions[i + 1] \o "     "
         \o FormatFrom(solutions, i + 1)

\* The enumeration started one root late.
format_step_solution_late(solutions) == "Solutions:\n" \o FormatFrom(solutions, 1)

\* format_step_solution(solutions)
format_step_solution(solutions) == "Solutions:\n" \o FormatFrom(solutions, 0)

\* plot_graph clearing the axes only once the evaluation succeeded.
plot_graph_clearing_late(g, expr) ==
    LET g1 == Call(g, "plot_graph", expr)
        r == evaluate(expr)
    IN  IF r.raised
        THEN IF r.kind = "TypeError"
             THEN [gui |-> setText(g1, PlotError), exc |-> Return(<<>>)]
             ELSE [gui |-> g1, exc |-> r]
        ELSE LET drawn == [lines |-> <<expr>>, decorated |-> TRUE]
             IN  [gui |-> [Call(Call(Call(g1, "ax.clear", ""), "ax.plot", expr),
                                "canvas.draw", "")
                             EXCEPT !.ax = drawn, !.canvas = drawn],
                  exc |-> Return(<<>>)]

\* plot_graph(expr): the widgets afterwards, and the exception that escapes.
plot_graph(g, expr) ==
    LET g1 == [Call(Call(g, "plot_graph", expr), "ax.clear", "")
                 EXCEPT !.ax = ClearedAxes]
        r == evaluate(expr)
    IN  IF r.raised
        THEN IF r.kind = "TypeError"
             THEN [gui |-> setText(g1, PlotError), exc |-> Return(<<>>)]
             ELSE [gui |-> g1, exc |-> r]
        ELSE LET drawn == [lines |-> <<expr>>, decorated |-> TRUE]
             IN  [gui |-> [Call(Call(g1, "ax.plot", expr), "canvas.draw", "")
                             EXCEPT !.ax = drawn, !.canvas = drawn],
                  exc |-> Return(<<>>)]

\* left, right = eq.split('='); eq = f"({left}) - ({right})"
Rewrite(eq) ==
    LET parts == split(eq, "=")
    IN  IF Len(parts) # 2
        THEN Raise("ValueError", "too many values to unpack (expected 2)")
        ELSE Return(<<"(">> \o parts[1] \o <<")", " ", "-", " ", "(">>
                    \o parts[2] \o <<")">>)

RECURSIVE ParseEquations(_, _, _)
\* The loop of solve_system over equation_str.split(','): the expressions
\* parsed (or the exception raised) and the calls made.
ParseEquations(parts, equations, made) ==
    IF parts = <<>> THEN [res |-> Return(equations), made |-> made]
    ELSE LET eq == strip(Head(parts))
             rw == IF Contains(eq, "=") THEN Rewrite(eq) ELSE Return(eq)
         IN  IF rw.raised THEN [res |-> rw, made |-> made]
             ELSE LET p == sympify(rw.value)
                      made1 == Append(made, Made("sympify", Str(rw.value)))
                  IN  IF p.raised THEN [res |-> p, made |-> made1]
                      ELSE ParseEquations(Tail(parts),
                                          Append(equations, p.value[1]), made1)

RECURSIVE Assignments(_, _)
\* f"{var} = {sol}" for var, sol in zip(variables, numeric_solutions)
Assignments(variables, sols) ==
    IF variables = <<>> \/ sols = <<>> THEN <<>>
    ELSE <<Head(variables) \o " = " \o evalf(Head(sols))>>
         \o Assignments(Tail(variables), Tail(sols))

\* solve_system(equation_str): the text returned and the calls made.
solve_system(equation_str) ==
    LET parsed == ParseEquations(split(equation_str, ","), <<>>, <<>>)
        eqs == parsed.res.value
        variables == SortedBy(NameOrder,
                              UNION {free_symbols(eqs[i]) : i \in 1..Len(eqs)})
        solutions == linsolve(eqs, variables)
        made1 == Append(parsed.made, Made("linsolve", Join(eqs, ", ")))
    IN  IF parsed.res.raised
        THEN [text |-> "Error solving system: " \o parsed.res.msg,
              made |-> parsed.made]
        ELSE IF solutions.raised
        THEN [text |-> "Error solving system: " \o solutions.msg, made |-> made1]
        ELSE IF solutions.value = <<>>
        THEN [text |-> "No solution found.", made |-> made1]
        ELSE [text |-> Join(Assignments(variables, solutions.value[1]), "     "),
              made |-> made1]

\* The handler showing the message without the "Error: " before it.
ExceptBare(g, exc) == setText(g, exc.msg)

\* except Exception as e: self.solution_output.setText(f"Error: {e}")
Except(g, exc) == setText(g, "Error: " \o exc.msg)

\* The branch plotting what it computed instead of the parsed expression.
SingleBranchPlottingResult(g, name, r, formatted, expr) ==
    LET g1 == Call(g, name, expr)
        p == plot_graph(g1, IF r.value = <<>> THEN expr ELSE r.value[1])
    IN  IF r.raised THEN Except(g1, r)
        ELSE IF p.exc.raised THEN Except(p.gui, p.exc)
        ELSE setText(p.gui, formatted)

\* One of the three single-equation branches: the engine call r (named
\* name), the text formatted from its value, then the plot and the setText.
SingleBranch(g, name, r, formatted, expr) ==
    LET g1 == Call(g, name, expr)
        p == plot_graph(g1, expr)
    IN  IF r.raised THEN Except(g1, r)
        ELSE IF p.exc.raised THEN Except(p.gui, p.exc)
        ELSE setText(p.gui, formatted)

\* The entered text taken as it is, without .strip().
EnteredUntrimmed(text) == text

\* equation_str = self.equation_input.text().strip()
Entered(text) == strip(text)

\* solve_equation(): the widgets after the handler, given the widgets
\* before it, the selected type and the entered text.
solve_equation(e, g, type, text) ==
    LET equation_str == Entered(text)
        parsed == sympify(equation_str)
        expr == parsed.value[1]
        g1 == Call(g, "sympify", Str(equation_str))
    IN  IF equation_str = <<>> THEN setText(g, PleaseEnter)
        ELSE IF parsed.raised THEN Except(g1, parsed)
        ELSE IF type = "Algebraic Equation"
        THEN LET r == solve(e, expr)
             IN  SingleBranch(g1, "solve", r, format_step_solution(r.value), expr)
        ELSE IF type = "Differentiation"
        THEN LET r == diff(e, expr)
             IN  SingleBranch(g1, "diff", r, "f'(x) = " \o r.value[1], expr)
        ELSE IF type = "Integration"
        THEN LET r == integrate(e, expr)
             IN  SingleBranch(g1, "integrate", r,
                              IntegralSign \o "f(x) dx = " \o r.value[1] \o " + C", expr)
        ELSE IF type = "System of Equations"
        THEN LET s == solve_system(equation_str)
             IN  setText([g1 EXCEPT !.calls = @ \o s.made], s.text)
        ELSE setText(g1, "Invalid selection.")

----------------------------------------------------------------------------
(* The application *)

NoRequest == [type |-> "", text |-> <<>>]

\* __init__
Init ==
    /\ eq_type = "Algebraic Equation"
    /\ equation_input = <<>>
    /\ solution_output = ""
    /\ ax = ClearedAxes
    /\ canvas = ClearedAxes
    /\ calls = <<>>
    /\ request = NoRequest
    /\ plotted = <<>>
    /\ engine \in Engines

\* The user picks an entry of the type dropdown.
SelectType ==
    \E t \in EqTypes :
        /\ t # eq_type
        /\ eq_type' = t
        /\ UNCHANGED <<equation_input, solution_output, ax, canvas, calls,
                       request, plotted, engine>>

\* The user edits the equation field.
EditText ==
    \E s \in Texts :
        /\ s # equation_input
        /\ equation_input' = s
        /\ UNCHANGED <<eq_type, solution_output, ax, canvas, calls, request,
                       plotted, engine>>

\* The engine's answer to the solve, diff or integrate call of a type.
Answer(e, type, expr) ==
    CASE type = "Algebraic Equation" -> solve(e, expr)
      [] type = "Differentiation" -> diff(e, expr)
      [] OTHER -> integrate(e, expr)

\* The plot of a request succeeds when the request reaches plot_graph and
\* the evaluation and the drawing raise nothing.
PlotSucceeds(e, type, text) ==
    LET p == sympify(strip(text))
        expr == p.value[1]
    IN  /\ type \in SingleTypes
        /\ strip(text) # <<>>
        /\ ~p.raised
        /\ ~Answer(e, type, expr).raised
        /\ ~evaluate(expr).raised

\* The user presses Solve: solve_button.clicked runs solve_equation.
Solve ==
    LET g == solve_equation(engine,
                            [out |-> solution_output, ax |-> ax,
                             canvas |-> canvas, calls |-> <<>>],
                            eq_type, equation_input)
    IN  /\ solution_output' = g.out
        /\ ax' = g.ax
        /\ canvas' = g.canvas
        /\ calls' = g.calls
        /\ request' = [type |-> eq_type, text |-> equation_input]
        /\ plotted' = IF PlotSucceeds(engine, eq_type, equation_input)
                      THEN <<sympify(strip(equation_input)).value[1]>>
                      ELSE plotted
        /\ UNCHANGED <<eq_type, equation_input, engine>>

Next == SelectType \/ EditText \/ Solve

Spec == Init /\ [][Next]_vars

----------------------------------------------------------------------------
(* What the last request was, read from the engine alone *)

\* A request has run.
Done == request # NoRequest

\* The calls of the last request that bear one of the names.
CallsNamed(names) == {i \in 1..Len(calls) : calls[i].name \in names}

EngineCalls == {"sympify", "solve", "diff", "integrate", "linsolve"}

\* The text of the last request, trimmed, and what the engine parses it to.
ReqStr == strip(request.text)

ReqParsed == sympify(ReqStr)

\* The last request had a text that the engine parsed.
Parsed == Done /\ ReqStr # <<>> /\ ~ReqParsed.raised

ReqExpr == ReqParsed.value[1]

\* The engine's answer to the solve, diff or integrate call of the type.
ReqAnswer == Answer(engine, request.type, ReqExpr)

\* The last request was of a single-equation type and its solve, diff or
\* integrate call returned.
Solved == Parsed /\ request.type \in SingleTypes /\ ~ReqAnswer.raised

\* The equations of the last request, each parsed as solve_system rewrites
\* it, and the engine's answer to the linear solve of them.
ReqEquations == ParseEquations(split(ReqStr, ","), <<>>, <<>>).res

ReqVariables ==
    SortedBy(NameOrder,
             UNION {free_symbols(ReqEquations.value[i]) :
                        i \in 1..Len(ReqEquations.value)})

ReqLinsolve == linsolve(ReqEquations.value, ReqVariables)

\* Every equation of the last request contains "=".
EveryEquationHasEq ==
    \A i \in 1..Len(split(ReqStr, ",")) : Contains(split(ReqStr, ",")[i], "=")

LastCallIsSetText ==
    /\ calls # <<>>
    /\ calls[Len(calls)] = Made("setText", solution_output)

\* A step of Solve (the other actions change the type or the text).
SolveStep == UNCHANGED <<eq_type, equation_input>> /\ Solve

----------------------------------------------------------------------------
(* C1 *)

\* C1: in every mode, a request whose text is empty once trimmed leaves
\* the output "Please enter an equation." and makes no call but that
\* setText: no engine call and no plot_graph.
C1_EmptyInputPrompt ==
    (Done /\ ReqStr = <<>>) =>
        /\ solution_output = PleaseEnter
        /\ calls = <<Made("setText", PleaseEnter)>>

\* A text of blanks only was submitted in System of Equations mode.
C1_Witness ==
    /\ request = [type |-> "System of Equations", text |-> Blanks(2)]
    /\ solution_output = PleaseEnter
    /\ CallsNamed(EngineCalls \cup {"plot_graph"}) = {}

----------------------------------------------------------------------------
(* C2 *)

\* C2: in System of Equations mode, a text of comma-separated equations
\* that each contain "=" and form a uniquely solvable linear system ends
\* with the output being the "var = value" assignments of the solution.
C2_SystemWithEqualsSolved ==
    (/\ Done
     /\ request.type = "System of Equations"
     /\ ReqStr # <<>>
     /\ EveryEquationHasEq
     /\ ~ReqEquations.raised
     /\ ~ReqLinsolve.raised
     /\ Len(ReqLinsolve.value) = 1) =>
        solution_output =
            Join(Assignments(ReqVariables, ReqLinsolve.value[1]), "     ")

----------------------------------------------------------------------------
(* C3 *)

\* The first exception a parse or solve call of the last request raises,
\* if any: the parse of the whole text, then the call of the type.
ReqError ==
    IF ReqParsed.raised THEN ReqParsed
    ELSE IF request.type \in SingleTypes THEN ReqAnswer
    ELSE IF ReqEquations.raised THEN ReqEquations
    ELSE ReqLinsolve

\* The statement of C3 as given: whenever parsing or solving raises, the
\* output is "Error: " followed by the message, in every mode.
C3_Original ==
    (Done /\ ReqStr # <<>> /\ ReqError.raised) =>
        solution_output = "Error: " \o ReqError.msg

\* C3 (amended): whenever parsing or solving raises, the request ends with
\* a setText of "Error: <message>", except that an exception raised inside
\* solve_system (after the whole text parsed) ends with
\* "Error solving system: <message>"; the handler returns normally.
C3_ErrorSurfaced ==
    (Done /\ ReqStr # <<>> /\ ReqError.raised) =>
        /\ solution_output =
              (IF ~ReqParsed.raised /\ request.type = "System of Equations"
               THEN "Error solving system: " ELSE "Error: ") \o ReqError.msg
        /\ LastCallIsSetText

\* A nonlinear system: linsolve raised inside solve_system.
C3_Witness ==
    /\ request = [type |-> "System of Equations", text |-> TQuadratic]
    /\ ReqError.kind = "NonlinearError"
    /\ solution_output = "Error solving system: nonlinear term: x**2"

----------------------------------------------------------------------------
(* C4, C5 *)

\* What the plot's evaluation of the parsed expression raises, if anything.
ReqPlot == evaluate(ReqExpr)

\* The text the branch of the type formats from the engine's answer.
ReqFormatted ==
    CASE request.type = "Algebraic Equation" ->
            format_step_solution(ReqAnswer.value)
      [] request.type = "Differentiation" -> "f'(x) = " \o ReqAnswer.value[1]
      [] OTHER -> IntegralSign \o "f(x) dx = " \o ReqAnswer.value[1] \o " + C"

\* C4: in a single-equation mode, when evaluating the expression for the
\* plot raises a type error, the output once the request has completed is
\* the plotting-specific message, and nothing was rendered on the canvas.
C4_PlotErrorShown ==
    (Solved /\ ReqPlot.raised /\ ReqPlot.kind = "TypeError") =>
        /\ solution_output = PlotError
        /\ CallsNamed({"canvas.draw"}) = {}

\* C5: in a single-equation mode, when the solve, diff or integrate call
\* succeeded and the plot then fails with any exception, the formatted
\* result of the request is still the output when the request completes.
C5_SolveResultKept ==
    (Solved /\ ReqPlot.raised) => solution_output = ReqFormatted

----------------------------------------------------------------------------
(* C6 *)

\* C6: in System of Equations mode, a text describing a linear system for
\* which the linear solve returns the empty set ends with the output
\* "No solution found.".
C6_NoSolutionReported ==
    (/\ Done
     /\ request.type = "System of Equations"
     /\ ReqStr # <<>>
     /\ ~ReqEquations.raised
     /\ ~ReqLinsolve.raised
     /\ ReqLinsolve.value = <<>>) =>
        solution_output = "No solution found."

----------------------------------------------------------------------------
(* C7 *)

\* "x<i> = <ri>", one per root, in the engine's order.
Entries(roots) == [i \in 1..Len(roots) |-> "x" \o ToString(i) \o " = " \o roots[i]]

Separator == "     "

\* The statement of C7 as given: in Algebraic mode the output is the
\* entries joined by the separator and nothing else, with no header.
C7_Original ==
    (Solved /\ request.type = "Algebraic Equation") =>
        solution_output = Join(Entries(ReqAnswer.value), Separator)

\* C7 (amended): in Algebraic mode, when the solve call returns r1..rn, the
\* formatted text is the header "Solutions:\n", then one entry "x<i> = <ri>"
\* per root, numbered 1..n in the engine's order, each entry (the last too)
\* followed by the separator; it is the output unless plot_graph raises an
\* exception other than a type error, and then the output is
\* "Error: <message>".
C7_RootsEnumerated ==
    (Solved /\ request.type = "Algebraic Equation") =>
        solution_output =
            IF ReqPlot.raised /\ ReqPlot.kind # "TypeError"
            THEN "Error: " \o ReqPlot.msg
            ELSE "Solutions:\n" \o Join(Entries(ReqAnswer.value), Separator)
                 \o (IF ReqAnswer.value = <<>> THEN "" ELSE Separator)

\* The two roots of x**2 - 4, shown after the plot was drawn.
C7_Witness ==
    /\ request = [type |-> "Algebraic Equation", text |-> TQuadratic]
    /\ ReqAnswer.value = <<"-2", "2">>
    /\ solution_output = "Solutions:\nx1 = -2     x2 = 2     "

----------------------------------------------------------------------------
(* C8 *)

\* The widgets as __init__ leaves them, before any request.
FreshGui == [out |-> "", ax |-> ClearedAxes, canvas |-> ClearedAxes, calls |-> <<>>]

\* C8: after any sequence of requests, the output the last request left is
\* the output the same type and text give as the very first request (no
\* earlier request, failed or not, changes it), and the last thing the
\* request did was to write that output.
C8_OutcomeOfRequestAlone ==
    Done =>
        /\ solution_output =
              solve_equation(engine, FreshGui, request.type, request.text).out
        /\ LastCallIsSetText

\* A system solved after a plot was drawn and a later plot failed: the axes
\* are cleared while the canvas still shows the earlier plot.
C8_Witness ==
    /\ request = [type |-> "System of Equations", text |-> TLinear]
    /\ solution_output = "x = 0"
    /\ ax = ClearedAxes
    /\ canvas # ClearedAxes

----------------------------------------------------------------------------
(* C9 *)

\* The call of the type's branch, as the log records it.
BranchCall ==
    Made(CASE request.type = "Algebraic Equation" -> "solve"
           [] request.type = "Differentiation" -> "diff"
           [] OTHER -> "integrate",
         ReqExpr)

\* The calls of the last request: when the call of a single-equation type
\* returned, exactly one plot_graph, of the parsed expression, right after
\* that call; otherwise no plot_graph at all.
PlotCallByMode ==
    Done =>
        IF Solved
        THEN /\ Cardinality(CallsNamed({"plot_graph"})) = 1
             /\ Len(calls) >= 3
             /\ calls[2] = BranchCall
             /\ calls[3] = Made("plot_graph", ReqExpr)
        ELSE CallsNamed({"plot_graph", "ax.clear", "ax.plot", "canvas.draw"}) = {}

\* C9: in Algebraic, Differentiation and Integration modes plot_graph is
\* called exactly once, with the expression parsed from the input, and only
\* after the solve, diff or integrate call returned; in System of Equations
\* mode plot_graph is never called and the axes and the canvas stay as
\* they were.
C9_PlotByMode ==
    /\ [](PlotCallByMode)
    /\ [][(eq_type = "System of Equations" /\ SolveStep) =>
              (/\ CallsNamed({"plot_graph"})' = {}
               /\ ax' = ax
               /\ canvas' = canvas)]_vars

\* The derivative of x**2 - 4 was asked for and x**2 - 4 itself plotted.
C9_Witness ==
    /\ request = [type |-> "Differentiation", text |-> TQuadratic]
    /\ solution_output = "f'(x) = 2*x"
    /\ calls[3] = Made("plot_graph", "x**2-4")
    /\ canvas.lines = <<"x**2-4">>

----------------------------------------------------------------------------
(* C10 *)

\* A request of this type and text ends before plot_graph: with the
\* empty-input prompt, or with a parse or solve/diff/integrate call that
\* raises.
EndsBeforePlot(e, type, text) ==
    LET p == sympify(strip(text))
    IN  \/ strip(text) = <<>>
        \/ p.raised
        \/ type \in SingleTypes /\ Answer(e, type, p.value[1]).raised

\* A request of this type and text calls plot_graph and the plot fails.
PlotFails(e, type, text) ==
    LET p == sympify(strip(text))
    IN  /\ type \in SingleTypes
        /\ strip(text) # <<>>
        /\ ~p.raised
        /\ ~Answer(e, type, p.value[1]).raised
        /\ evaluate(p.value[1]).raised

\* The canvas shows the plot of the last request whose plot succeeded, or
\* the empty axes if there was none.
CanvasShowsLastPlot ==
    canvas = IF plotted = <<>> THEN ClearedAxes
             ELSE [lines |-> plotted, decorated |-> TRUE]

\* C10: the canvas always shows the expression of the most recent request
\* whose plot succeeded; a request that ends with the empty-input prompt or
\* whose parse or solve/diff/integrate call raises leaves the axes and the
\* canvas as they were; a request whose plot_graph call fails leaves the
\* axes cleared and the canvas not redrawn.
C10_StalePlot ==
    /\ [](CanvasShowsLastPlot)
    /\ [][SolveStep =>
            /\ EndsBeforePlot(engine, eq_type, equation_input) =>
                  (ax' = ax /\ canvas' = canvas)
            /\ PlotFails(engine, eq_type, equation_input) =>
                  (ax' = ClearedAxes /\ canvas' = canvas)]_vars

\* The plot of x**2 - 4 stays on the canvas, next to the error text of a
\* later request whose plot failed and cleared the axes.
C10_Witness ==
    /\ request.text = TTwoVars
    /\ PlotFails(engine, request.type, request.text)
    /\ solution_output = "Error: name 'y' is not defined"
    /\ ax = ClearedAxes
    /\ canvas = [lines |-> <<"x**2-4">>, decorated |-> TRUE]
    /\ plotted = <<"x**2-4">>

====
